---- MODULE Spec2Model ----
(***************************************************************************)
(* Recording pipeline of SLED (generate_sequence.py, ego_vehicle.py,       *)
(* ai_vehicle.py, ai_pedestrian.py) and the replay of a recorded archive   *)
(* (visualize_recording.py).                                               *)
(*                                                                         *)
(* Time is counted in world ticks: the timestamp of a sensor frame is the  *)
(* number of world.tick() calls made when it was produced.  Rates are      *)
(* positive integers and durations are counted in half seconds, so that    *)
(* int(duration * hz) truncates.                                           *)
(***************************************************************************)
EXTENDS Integers, Sequences, FiniteSets

\* ------------------------------------------------------------------ bounds
MaxHz == 2            \* --hz and --lidar-hz range over 1..MaxHz
MaxRgbFps == 2        \* --rgb-fps ranges over 1..MaxRgbFps
MaxTicks == 3         \* configurations with more recording ticks are left out
MaxDiscard == 1       \* configurations with more warm-up ticks are left out
MaxExtra == 1         \* a tick delivers at most N + MaxExtra point-cloud frames
MaxAgents == 1        \* --nvehicles and --npedestrians range over 0..MaxAgents
MaxSessionTicks == 1  \* tick bound (warm-up, recording) of the whole-session runs
MaxLen == 2           \* frames of one modality in a replayed archive
MaxTs == 3            \* timestamps of a replayed archive range over 1..MaxTs
MaxRaceTicks == 2     \* recording ticks of the runs with racing callbacks
MaxPoints == 2        \* spawn points of the map
MaxAttempts == 3      \* collisions the spawn loops may meet in a run

\* ------------------------------------------------------- the defaults
\* the options of generate_sequence_args.py left at their defaults
DefaultHz == 200            \* --hz 200.0
DefaultLidarHz == 10        \* --lidar-hz 10.0
DefaultRgbFps == 30         \* --rgb-fps 30.0
DefaultDuration2 == 20      \* --duration 10.0, in half seconds
DefaultDiscard2 == 6        \* --discard-duration 3.0, in half seconds

VARIABLES
  pc,                      \* position of main() of generate_sequence.py
  fault,                   \* "none", or the exception that left the try block / main()
  lidar_is_pandora,        \* args.lidar_is_pandora
  nvehicles,               \* args.nvehicles
  npedestrians,            \* args.npedestrians
  ticks_to_discard,
  ticks_to_record,
  keep_lidar_every_x_idx,
  current_lidar_idx,
  discarded,               \* iterations done of the "Discarding ticks" loop
  recorded,                \* iterations done of the "Recording ticks" loop
  now,                     \* number of world.tick() calls that have returned
  dvs_queue, depth_queue, lidar_queue, rgb_queue,          \* EgoVehicle queues
  events_queue, depth_images_queue, lidar_clouds_queue, rgb_images_queue,
  production,              \* how the simulator delivers point-cloud frames
  rgb_period,              \* ticks between two frames of the RGB camera
  lidar_next,              \* sub-emitter whose callback appends next
  lidar_log,               \* point-cloud frames appended since the warm-up clear
  dvs_log, depth_log, rgb_log,   \* the same for the three cameras
  step,                    \* <<sensor, phase>>: the statement of the loop body that is next
  held,                    \* frames whose raw_data the loop body has read and not yet popped
  points,                  \* spawn points of the map
  occupied,                \* spawn points an actor stands on
  failed_attempts,         \* collisions met by the spawn loops being run
  alive,                   \* actors that exist in the simulator
  vehicles,                \* AIVehicle.instances
  pedestrians,             \* AIPedestrian.instances
  started,                 \* pedestrians whose controller was started
  td,                      \* progress of the finally block
  teardowns,               \* times the finally block was entered
  output_file,             \* args.output_file: directories, then the file name
  compressed,              \* --compressed
  archive,                 \* the files np.savez has written: none, then the .npz file
  csv_rows,                \* the rows of the csv file
  replay_pc,               \* position of main() of visualize_recording.py
  events_with_ts, depth_images_with_ts, lidar_clouds_with_ts, rgb_images_with_ts,
  ref_index,               \* the loop variable i: reference indices processed so far
  lidar_index,
  rgb_index,
  shown                    \* the frames displayed, in order: <<window, index, ref_index>>

sessionVars ==
  <<pc, fault, lidar_is_pandora, nvehicles, npedestrians, ticks_to_discard,
    ticks_to_record, keep_lidar_every_x_idx, current_lidar_idx, discarded, recorded,
    now, dvs_queue, depth_queue, lidar_queue, rgb_queue, events_queue,
    depth_images_queue, lidar_clouds_queue, rgb_images_queue, production,
    rgb_period, lidar_next, lidar_log, dvs_log, depth_log, rgb_log, step, held,
    points, occupied, failed_attempts, alive, vehicles, pedestrians, started, td,
    teardowns, output_file, compressed, archive, csv_rows>>

replayVars ==
  <<replay_pc, events_with_ts, depth_images_with_ts, lidar_clouds_with_ts,
    rgb_images_with_ts, ref_index, lidar_index, rgb_index, shown>>

vars == <<sessionVars, replayVars>>

\* --------------------------------------------------------- configuration
\* int(args.duration * args.hz), the duration given in half seconds
TicksFor(duration2, hz) == (duration2 * hz) \div 2

\* args.hz // args.lidar_hz
KeepEvery(hz, lidar_hz) == hz \div lidar_hz

\* sensor_tick = 1/args.rgb_fps: the camera fires once the time since its last
\* frame reaches sensor_tick, which takes ceil(hz / rgb_fps) ticks of 1/hz
RgbPeriod(hz, rgb_fps) == (hz + rgb_fps - 1) \div rgb_fps

\* lidar_subpackets_per_pcl
LidarSubpackets(pandora) == IF pandora THEN 3 ELSE 1

N == LidarSubpackets(lidar_is_pandora)

\* ------------------------------------------------------------- the frames
\* number of points a sub-emitter returns on a tick (it varies with the scene)
NumPoints(e, t) == 1 + ((e + t) % 2)

LidarMeasurement(e, t) ==
  [timestamp |-> t, raw_data |-> [k \in 1..NumPoints(e, t) |-> <<e, t, k>>]]

DVSEventArray(t) == [timestamp |-> t, raw_data |-> << <<"event", t>> >>]

\* a BGRA image of one pixel
Image(kind, t) == [timestamp |-> t, raw_data |-> << <<kind, t, t, 255>> >>]

\* the callbacks of the point-cloud emitters: cnt frames appended round-robin
RECURSIVE LidarListen(_, _, _, _, _)
LidarListen(queue, cnt, e, n, t) ==
  IF cnt = 0 THEN queue
  ELSE LidarListen(Append(queue, LidarMeasurement(e, t)), cnt - 1, (e % n) + 1, n, t)

RECURSIVE NextEmitter(_, _, _)
NextEmitter(e, cnt, n) == IF cnt = 0 THEN e ELSE NextEmitter((e % n) + 1, cnt - 1, n)

\* numbers of point-cloud frames one tick can deliver
LidarCounts == IF production = "bursty" THEN 0..(N + MaxExtra) ELSE {N}

\* the orders in which the callbacks of n emitters can run on a tick when the
\* threads of the simulator are not ordered
Orders(n) == {order \in [1..n -> 1..n] : \A a, b \in 1..n : a # b => order[a] # order[b]}

\* the frames of tick t appended by the callbacks in the given order
Delivered(queue, order, t) ==
  queue \o [k \in 1..Len(order) |-> LidarMeasurement(order[k], t)]

RgbFires(t) == (t - 1) % rgb_period = 0

\* world.tick(): the simulation advances one step and the sensor callbacks
\* registered with listen() append to the queues
WorldTick(cnt) ==
  /\ now' = now + 1
  /\ dvs_queue' = Append(dvs_queue, DVSEventArray(now + 1))
  /\ depth_queue' = Append(depth_queue, Image("depth", now + 1))
  /\ IF production = "shuffled"
     THEN \E order \in Orders(N) :
            /\ lidar_queue' = Delivered(lidar_queue, order, now + 1)
            /\ lidar_log' = Delivered(lidar_log, order, now + 1)
     ELSE /\ lidar_queue' = LidarListen(lidar_queue, cnt, lidar_next, N, now + 1)
          /\ lidar_log' = LidarListen(lidar_log, cnt, lidar_next, N, now + 1)
  /\ lidar_next' = NextEmitter(lidar_next, cnt, N)
  /\ rgb_queue' = IF RgbFires(now + 1) THEN Append(rgb_queue, Image("rgb", now + 1))
                  ELSE rgb_queue
  /\ dvs_log' = Append(dvs_log, DVSEventArray(now + 1))
  /\ depth_log' = Append(depth_log, Image("depth", now + 1))
  /\ rgb_log' = IF RgbFires(now + 1) THEN Append(rgb_log, Image("rgb", now + 1))
                ELSE rgb_log

configVars ==
  <<lidar_is_pandora, nvehicles, npedestrians, ticks_to_discard, ticks_to_record,
    keep_lidar_every_x_idx, production, rgb_period, output_file, compressed, points>>
queueVars == <<dvs_queue, depth_queue, lidar_queue, rgb_queue>>
bufferVars ==
  <<events_queue, depth_images_queue, lidar_clouds_queue, rgb_images_queue,
    current_lidar_idx>>
actorVars == <<alive, vehicles, pedestrians, started, occupied, failed_attempts>>
outputVars == <<archive, csv_rows>>
logVars == <<dvs_log, depth_log, rgb_log>>
raceVars == <<step, held>>

\* ------------------------------------------------------------ the actors
\* An actor is <<kind, i>>.  The actors of the ego-vehicle are numbered in the
\* order EgoVehicle.__init__ spawns them: the vehicle, the event camera, the
\* depth camera, the LiDAR(s), the RGB camera.
NumEgoActors(pandora) == 4 + LidarSubpackets(pandora)

EgoSpawnOrder(pandora) == [i \in 1..NumEgoActors(pandora) |-> <<"ego", i>>]

\* EgoVehicle.destroy: the sensors in spawn order, then the vehicle
EgoDestroyOrder(pandora) ==
  [i \in 1..NumEgoActors(pandora) |->
     IF i < NumEgoActors(pandora) THEN <<"ego", i + 1>> ELSE <<"ego", 1>>]

\* AIPedestrian.destroy: the controller, then the pedestrian
PedestrianDestroyOrder(i) == << <<"controller", i>>, <<"walker", i>> >>

Prefix(s, k) == {s[i] : i \in 1..k}

\* ------------------------------------------------------------- the files
\* A path is the sequence of its '/'-separated components, the file name last;
\* a component is the sequence of its '.'-separated parts.
DefaultOutputFile == << <<"data">>, <<"out", "npz">> >>

\* values of --output-file
OutputFiles == {DefaultOutputFile, << <<"out", "npz">> >>, << <<"data">>, <<"seq1">> >>}

\* args.output_file.split('/')[-1]
BaseName(path) == path[Len(path)]

\* the file np.savez writes: ".npz" is appended to a name that does not end
\* with it
SavezFile(path) ==
  LET name == path[Len(path)] IN
    IF name[Len(name)] = "npz" THEN path
    ELSE [path EXCEPT ![Len(path)] = Append(name, "npz")]

\* the csv file when the session starts: the row of an earlier session
PriorRows == << <<<<"seq0", "npz">>, 7, "Town02">> >>

InitOutput(files, flags) ==
  /\ output_file \in files
  /\ compressed \in flags

\* np.asanyarray(list), as np.savez does with each keyword: a list of n arrays
\* [payload, timestamp] of dtype object becomes one array of shape (n, 2), its
\* objects row by row; the empty list becomes an array of shape (0,)
AsArray(list) ==
  [shape |-> IF list = <<>> THEN <<0>> ELSE <<Len(list), 2>>,
   flat |-> [k \in 1..(2 * Len(list)) |-> list[(k + 1) \div 2][2 - (k % 2)]]]

\* the objects of an array as they are pickled into the member of the archive:
\* each one with its column
Pickle(array) == [k \in 1..Len(array.flat) |-> <<(k - 1) % 2, array.flat[k]>>]

\* pickle.load of the member
Unpickle(stream) == [k \in 1..Len(stream) |-> stream[k][2]]

SameToken(a, b) == a[1] = b[1] /\ a[2] = b[2]

\* np.savez_compressed deflates each member: a lossless coding, here the runs
\* of equal tokens, stands for zlib's
RECURSIVE Deflate(_)
Deflate(stream) ==
  IF stream = <<>> THEN <<>>
  ELSE LET rest == Deflate(Tail(stream)) IN
         IF rest # <<>> /\ SameToken(rest[1].token, Head(stream))
         THEN <<[token |-> Head(stream), run |-> rest[1].run + 1]>> \o Tail(rest)
         ELSE <<[token |-> Head(stream), run |-> 1]>> \o rest

\* the member inflated when the archive is read
RECURSIVE Inflate(_)
Inflate(runs) ==
  IF runs = <<>> THEN <<>>
  ELSE [k \in 1..runs[1].run |-> runs[1].token] \o Inflate(Tail(runs))

\* one member of the .npz file
Member(list, deflated) ==
  [shape |-> AsArray(list).shape,
   deflated |-> deflated,
   data |-> IF deflated THEN Deflate(Pickle(AsArray(list))) ELSE Pickle(AsArray(list))]

\* sequence[name] of np.load(input_file, allow_pickle=True)
Load(member) ==
  [shape |-> member.shape,
   flat |-> Unpickle(IF member.deflated THEN Inflate(member.data) ELSE member.data)]

\* the rows but the last one
WithTsRowsShort(array) ==
  IF Len(array.shape) = 1 THEN <<>>
  ELSE [k \in 1..(array.shape[1] - 1) |-> <<array.flat[2 * k - 1], array.flat[2 * k]>>]

\* the array as the replay subscripts it: row k is [k, 0] (the payload) and
\* [k, 1] (the timestamp); an array of shape (0,) has no row
WithTsRows(array) ==
  IF Len(array.shape) = 1 THEN <<>>
  ELSE [k \in 1..array.shape[1] |-> <<array.flat[2 * k - 1], array.flat[2 * k]>>]

\* the map: its spawn points, some of them taken by actors that are already
\* in the world
InitWorld(maxPoints, maxOccupied) ==
  /\ points \in 1..maxPoints
  /\ occupied \in 0..maxOccupied
  /\ occupied <= points

\* ----------------------------------------------------------------- Init
InitConfig(maxDiscard, maxRecord, maxAgents, productions) ==
  /\ \E hz \in 1..MaxHz, lidar_hz \in 1..MaxHz, rgb_fps \in 1..MaxRgbFps,
        duration2 \in 0..(2 * maxRecord + 1), discard2 \in 0..(2 * maxDiscard + 1) :
       /\ TicksFor(duration2, hz) <= maxRecord
       /\ TicksFor(discard2, hz) <= maxDiscard
       /\ ticks_to_discard = TicksFor(discard2, hz)
       /\ ticks_to_record = TicksFor(duration2, hz)
       /\ keep_lidar_every_x_idx = KeepEvery(hz, lidar_hz)
       /\ rgb_period = RgbPeriod(hz, rgb_fps)
  /\ lidar_is_pandora \in BOOLEAN
  /\ nvehicles \in 0..maxAgents
  /\ npedestrians \in 0..maxAgents
  /\ production \in productions

\* the session of the default options: 200 Hz, clouds kept at 10 Hz, 3 s
\* discarded, 10 s recorded, one LiDAR, no background agent
DefaultConfig ==
  /\ ticks_to_discard = TicksFor(DefaultDiscard2, DefaultHz)
  /\ ticks_to_record = TicksFor(DefaultDuration2, DefaultHz)
  /\ keep_lidar_every_x_idx = KeepEvery(DefaultHz, DefaultLidarHz)
  /\ rgb_period = RgbPeriod(DefaultHz, DefaultRgbFps)
  /\ lidar_is_pandora = FALSE
  /\ nvehicles = 0
  /\ npedestrians = 0
  /\ production = "steady"

InitSession ==
  /\ pc = "spawn_ego"
  /\ fault = "none"
  /\ current_lidar_idx = 0
  /\ discarded = 0
  /\ recorded = 0
  /\ now = 0
  /\ dvs_queue = <<>> /\ depth_queue = <<>> /\ lidar_queue = <<>> /\ rgb_queue = <<>>
  /\ events_queue = <<>> /\ depth_images_queue = <<>>
  /\ lidar_clouds_queue = <<>> /\ rgb_images_queue = <<>>
  /\ lidar_next = 1
  /\ lidar_log = <<>>
  /\ dvs_log = <<>> /\ depth_log = <<>> /\ rgb_log = <<>>
  /\ step = <<"dvs", "check">>
  /\ held = <<>>
  /\ failed_attempts = 0
  /\ alive = {}
  /\ vehicles = <<>>
  /\ pedestrians = <<>>
  /\ started = {}
  /\ td = 0
  /\ teardowns = 0
  /\ archive = <<>>
  /\ csv_rows = PriorRows

\* ------------------------------------------------------------ spawning
\* An exception raised before the try block leaves main() at once.
Crash(exception) ==
  /\ pc' = "crashed"
  /\ fault' = exception

\* random.choice(world.get_map().get_spawn_points()): the point chosen may be one
\* an actor stands on, and then try_spawn_actor returns None
MayCollide == occupied > 0

\* the point chosen may be a free one, and then the actor is spawned
HasFreePoint == occupied < points

\* a constructor that returns early leaves the class list as it is
RegisterNothing(instances, self) == instances

\* "AIVehicle.instances.append(self)", "AIPedestrian.instances.append(self)"
Register(instances, self) == Append(instances, self)

\* ego_vehicle = EgoVehicle(ego_vehicle_transform, world, args)
SpawnEgo ==
  /\ pc = "spawn_ego"
  /\ HasFreePoint
  /\ pc' = "spawn_agents"
  /\ occupied' = occupied + 1
  /\ alive' = alive \cup Prefix(EgoSpawnOrder(lidar_is_pandora),
                               NumEgoActors(lidar_is_pandora))
  /\ UNCHANGED <<fault, replayVars, raceVars, configVars, queueVars, bufferVars, outputVars,
                 vehicles, pedestrians, started, discarded, recorded, now, lidar_next,
                 lidar_log, logVars, td, teardowns, failed_attempts>>

\* EgoVehicle.__init__ raises
SpawnEgoRaises ==
  /\ pc = "spawn_ego"
  /\ \/ \* try_spawn_actor returned None: collision at the chosen spawn point
        /\ MayCollide
        /\ Crash("Exception")
        /\ UNCHANGED <<alive, occupied>>
     \/ \* spawn_actor of a sensor raised after k actors were spawned
        \E k \in 1..(NumEgoActors(lidar_is_pandora) - 1) :
          /\ HasFreePoint
          /\ Crash("RuntimeError")
          /\ occupied' = occupied + 1
          /\ alive' = alive \cup Prefix(EgoSpawnOrder(lidar_is_pandora), k)
  /\ UNCHANGED <<replayVars, raceVars, configVars, queueVars, bufferVars, outputVars, vehicles,
                 pedestrians, started, discarded, recorded, now, lidar_next, lidar_log,
                 logVars, td, teardowns, failed_attempts>>

\* one iteration of "while(len(AIVehicle.instances) < args.nvehicles)"
SpawnVehicle ==
  /\ pc = "spawn_agents"
  /\ Len(vehicles) < nvehicles
  /\ \/ \* try_spawn_actor returned None: __init__ returns, nothing is registered
        /\ MayCollide
        /\ failed_attempts < MaxAttempts
        /\ failed_attempts' = failed_attempts + 1
        /\ UNCHANGED <<alive, vehicles, occupied>>
     \/ LET i == Len(vehicles) + 1 IN
          /\ HasFreePoint
          /\ occupied' = occupied + 1
          /\ alive' = alive \cup {<<"vehicle", i>>}
          /\ vehicles' = Register(vehicles, i)
          /\ UNCHANGED failed_attempts
  /\ UNCHANGED <<pc, fault, replayVars, raceVars, configVars, queueVars, bufferVars,
                 outputVars, pedestrians, started, discarded, recorded, now, lidar_next,
                 lidar_log, logVars, td, teardowns>>

\* one iteration of "while(len(AIPedestrian.instances) < args.npedestrians)": the
\* location is a random one of the navigation mesh, where another actor may stand
SpawnPedestrian ==
  /\ pc = "spawn_agents"
  /\ Len(vehicles) >= nvehicles
  /\ Len(pedestrians) < npedestrians
  /\ LET i == Len(pedestrians) + 1 IN
       \/ \* try_spawn_actor returned None
          /\ failed_attempts < MaxAttempts
          /\ failed_attempts' = failed_attempts + 1
          /\ UNCHANGED <<pc, fault, alive, pedestrians>>
       \/ \* the pedestrian is spawned, spawn_actor of its controller raises
          /\ Crash("RuntimeError")
          /\ alive' = alive \cup {<<"walker", i>>}
          /\ UNCHANGED <<pedestrians, failed_attempts>>
       \/ /\ alive' = alive \cup {<<"walker", i>>, <<"controller", i>>}
          /\ pedestrians' = Register(pedestrians, i)
          /\ UNCHANGED <<pc, fault, failed_attempts>>
  /\ UNCHANGED <<replayVars, raceVars, configVars, queueVars, bufferVars, outputVars, vehicles,
                 started, discarded, recorded, now, lidar_next, lidar_log, logVars, td,
                 teardowns, occupied>>

\* a call to the simulator raises while the agents are spawned (lost connection)
SpawnFault ==
  /\ pc = "spawn_agents"
  /\ Crash("RuntimeError")
  /\ UNCHANGED <<replayVars, raceVars, configVars, queueVars, bufferVars, outputVars,
                 actorVars, discarded, recorded, now, lidar_next, lidar_log, logVars, td,
                 teardowns>>

\* both loops are over: the tick counts and the queues are set up, try is entered;
\* the count of collisions is the loops' own
EnterTry ==
  /\ pc = "spawn_agents"
  /\ Len(vehicles) >= nvehicles
  /\ Len(pedestrians) >= npedestrians
  /\ pc' = "first_tick"
  /\ failed_attempts' = 0
  /\ UNCHANGED <<fault, replayVars, raceVars, configVars, queueVars, bufferVars, outputVars,
                 alive, vehicles, pedestrians, started, occupied, discarded, recorded, now,
                 lidar_next, lidar_log, logVars, td, teardowns>>

\* ------------------------------------------------------------ the ticks
\* the exception leaves main() as if the try had no finally clause
LeaveWithoutFinally ==
  /\ pc' = "ended"
  /\ td' = td
  /\ teardowns' = teardowns

\* entering the finally block
EnterFinally ==
  /\ pc' = "finally"
  /\ td' = 0
  /\ teardowns' = teardowns + 1

\* the loop stopped one pedestrian short
StartControllersButLast(instances) ==
  started \cup {instances[k] : k \in 1..(Len(instances) - 1)}

\* "for pedestrian in AIPedestrian.instances: pedestrian.start_controller()"
StartControllers(instances) == started \cup {instances[k] : k \in 1..Len(instances)}

\* world.tick(), then pedestrian.start_controller() for every pedestrian
FirstTick ==
  /\ pc = "first_tick"
  /\ \E cnt \in LidarCounts : WorldTick(cnt)
  /\ started' = StartControllers(pedestrians)
  /\ pc' = "warmup"
  /\ UNCHANGED <<fault, replayVars, raceVars, configVars, bufferVars, outputVars, alive,
                 vehicles, pedestrians, discarded, recorded, td, teardowns, occupied,
                 failed_attempts>>

\* an iteration of the "Discarding ticks" loop that does not tick the world
WarmupTickSkipped ==
  /\ pc = "warmup"
  /\ discarded < ticks_to_discard
  /\ discarded' = discarded + 1
  /\ UNCHANGED <<pc, fault, replayVars, raceVars, configVars, queueVars, bufferVars,
                 outputVars, actorVars, recorded, now, lidar_next, lidar_log, logVars, td,
                 teardowns>>

\* one iteration of the "Discarding ticks" loop
WarmupTick ==
  /\ pc = "warmup"
  /\ discarded < ticks_to_discard
  /\ \E cnt \in LidarCounts : WorldTick(cnt)
  /\ discarded' = discarded + 1
  /\ UNCHANGED <<pc, fault, replayVars, raceVars, configVars, bufferVars, outputVars,
                 actorVars, recorded, td, teardowns>>

\* clear_sensor_queues with the RGB queue forgotten
clear_sensor_queues_but_rgb ==
  /\ dvs_queue' = <<>>
  /\ depth_queue' = <<>>
  /\ lidar_queue' = <<>>
  /\ rgb_queue' = rgb_queue

\* EgoVehicle.clear_sensor_queues
clear_sensor_queues ==
  /\ dvs_queue' = <<>>
  /\ depth_queue' = <<>>
  /\ lidar_queue' = <<>>
  /\ rgb_queue' = <<>>

\* ego_vehicle.clear_sensor_queues(), once the "Discarding ticks" loop is over
ClearSensorQueues ==
  /\ pc = "warmup"
  /\ discarded = ticks_to_discard
  /\ clear_sensor_queues
  /\ lidar_log' = lidar_queue'
  /\ dvs_log' = dvs_queue' /\ depth_log' = depth_queue' /\ rgb_log' = rgb_queue'
  /\ pc' = "recording"
  /\ UNCHANGED <<fault, replayVars, raceVars, configVars, bufferVars, outputVars, actorVars,
                 discarded, recorded, now, lidar_next, td, teardowns>>

\* world.tick() of one iteration of the "Recording ticks" loop
RecordTick ==
  /\ pc = "recording"
  /\ recorded < ticks_to_record
  /\ \E cnt \in LidarCounts : WorldTick(cnt)
  /\ pc' = "drain"
  /\ UNCHANGED <<fault, replayVars, raceVars, configVars, bufferVars, outputVars, actorVars,
                 discarded, recorded, td, teardowns>>

\* ------------------------------------------------------------- the drain
\* np.frombuffer(raw_data, dtype=[x, y, t, pol]).copy()
Events(frame) == frame.raw_data

\* the BGRA buffer reshaped, then depth_image[:, :, :3]
DepthImage(frame) == [i \in 1..Len(frame.raw_data) |-> SubSeq(frame.raw_data[i], 1, 3)]

\* the BGRA buffer reshaped
RgbImage(frame) == frame.raw_data

\* the entry without its timestamp
WithTsZero(payload, timestamp) == <<payload, 0>>

\* np.array([payload, timestamp], dtype=object)
WithTs(payload, timestamp) == <<payload, timestamp>>

\* np.concatenate of the raw_data of lidar_queue[0 .. n-1]
RECURSIVE PointCloud(_, _)
PointCloud(queue, n) ==
  IF n = 0 THEN <<>> ELSE PointCloud(queue, n - 1) \o queue[n].raw_data

\* the retention test with the clouds counted from one
IsKeptOneBased(idx, keep) == (idx + 1) % keep = 0

\* current_lidar_idx % keep_lidar_every_x_idx == 0
IsKept(idx, keep) == idx % keep = 0

\* the counter left where it is
NextLidarIdxStuck(idx) == idx

\* current_lidar_idx += 1
NextLidarIdx(idx) == idx + 1

\* one pop too few
PopFrontShort(queue, n) == SubSeq(queue, n, Len(queue))

\* "for _ in range(n): queue.pop(0)"
PopFront(queue, n) == SubSeq(queue, n + 1, Len(queue))

\* the merged cloud with its timestamp, as appended to lidar_clouds_queue
MergedCloud(queue, n) == WithTs(PointCloud(queue, n), queue[1].timestamp)

\* the block of the event camera left out
DrainEventsSkipped == UNCHANGED <<events_queue, dvs_queue>>

\* the block of the event camera
DrainEvents ==
  IF dvs_queue # <<>>
  THEN /\ events_queue' =
            Append(events_queue, WithTs(Events(dvs_queue[1]), dvs_queue[1].timestamp))
       /\ dvs_queue' = PopFront(dvs_queue, 1)
  ELSE UNCHANGED <<events_queue, dvs_queue>>

\* the block of the depth camera left out
DrainDepthSkipped == UNCHANGED <<depth_images_queue, depth_queue>>

DrainDepth ==
  IF depth_queue # <<>>
  THEN /\ depth_images_queue' =
            Append(depth_images_queue,
                   WithTs(DepthImage(depth_queue[1]), depth_queue[1].timestamp))
       /\ depth_queue' = PopFront(depth_queue, 1)
  ELSE UNCHANGED <<depth_images_queue, depth_queue>>

DrainRgb ==
  IF rgb_queue # <<>>
  THEN /\ rgb_images_queue' =
            Append(rgb_images_queue, WithTs(RgbImage(rgb_queue[1]), rgb_queue[1].timestamp))
       /\ rgb_queue' = PopFront(rgb_queue, 1)
  ELSE UNCHANGED <<rgb_images_queue, rgb_queue>>

\* the point-cloud block when the modulo is defined (or not reached)
DrainLidar ==
  IF Len(lidar_queue) >= N
  THEN /\ lidar_clouds_queue' =
            IF IsKept(current_lidar_idx, keep_lidar_every_x_idx)
            THEN Append(lidar_clouds_queue, MergedCloud(lidar_queue, N))
            ELSE lidar_clouds_queue
       /\ current_lidar_idx' = NextLidarIdx(current_lidar_idx)
       /\ lidar_queue' = PopFront(lidar_queue, N)
  ELSE UNCHANGED <<lidar_clouds_queue, current_lidar_idx, lidar_queue>>

\* "x % 0.0" raises ZeroDivisionError
ModuloRaises == Len(lidar_queue) >= N /\ keep_lidar_every_x_idx = 0

\* the body of the "Recording ticks" loop after world.tick()
Drain ==
  /\ pc = "drain"
  /\ DrainEvents
  /\ DrainDepth
  /\ \/ /\ ~ModuloRaises
        /\ DrainLidar
        /\ DrainRgb
        /\ recorded' = recorded + 1
        /\ pc' = "recording"
        /\ UNCHANGED <<fault, td, teardowns>>
     \/ \* the events and the depth image of the tick are taken, then the
        \* modulo raises: the finally block is next
        /\ ModuloRaises
        /\ fault' = "ZeroDivisionError"
        /\ EnterFinally
        /\ UNCHANGED <<lidar_clouds_queue, current_lidar_idx, lidar_queue, rgb_images_queue,
                       rgb_queue, recorded>>
  /\ UNCHANGED <<replayVars, raceVars, configVars, outputVars, actorVars, discarded, now,
                 lidar_next, lidar_log, logVars>>

\* a call to the simulator raises inside the try block (world.tick() timing out,
\* a traffic-light call on a lost connection)
Fault ==
  /\ pc \in {"first_tick", "warmup", "recording", "drain"}
  /\ fault' = "RuntimeError"
  /\ EnterFinally
  /\ UNCHANGED <<replayVars, raceVars, configVars, queueVars, bufferVars, outputVars,
                 actorVars, discarded, recorded, now, lidar_next, lidar_log, logVars>>

\* ------------------------------------------------------------ the output
\* np.savez / np.savez_compressed
SaveArchive ==
  /\ pc = "recording"
  /\ recorded = ticks_to_record
  /\ archive' = <<[file |-> SavezFile(output_file),
                    events |-> Member(events_queue, compressed),
                    depth_images |-> Member(depth_images_queue, compressed),
                    lidar_clouds |-> Member(lidar_clouds_queue, compressed),
                    rgb_images |-> Member(rgb_images_queue, compressed)]>>
  /\ pc' = "csv"
  /\ UNCHANGED <<fault, td, teardowns, replayVars, raceVars, configVars, queueVars, bufferVars,
                 actorVars, discarded, recorded, now, lidar_next, lidar_log, logVars, csv_rows>>

\* np.savez raises and the exception is swallowed: the csv file is next
SaveArchiveSwallowed ==
  /\ pc = "recording"
  /\ recorded = ticks_to_record
  /\ pc' = "csv"
  /\ UNCHANGED <<fault, td, teardowns, replayVars, raceVars, configVars, queueVars, bufferVars,
                 outputVars, actorVars, discarded, recorded, now, lidar_next, lidar_log,
                 logVars>>

\* np.savez raises: the file cannot be written
SaveArchiveRaises ==
  /\ pc = "recording"
  /\ recorded = ticks_to_record
  /\ fault' = "OSError"
  /\ EnterFinally
  /\ UNCHANGED <<replayVars, raceVars, configVars, queueVars, bufferVars, outputVars,
                 actorVars, discarded, recorded, now, lidar_next, lidar_log, logVars>>

\* [args.output_file.split('/')[-1], len(lidar_clouds_queue), args.map]
IndexRow == <<BaseName(output_file), Len(lidar_clouds_queue), "Town01">>

\* open(args.csv_file, 'a') and csv_writer.writerow(...)
AppendIndex ==
  /\ pc = "csv"
  /\ csv_rows' = Append(csv_rows, IndexRow)
  /\ EnterFinally
  /\ UNCHANGED <<fault, replayVars, raceVars, configVars, queueVars, bufferVars, actorVars,
                 discarded, recorded, now, lidar_next, lidar_log, logVars, archive>>

\* open() or writerow() raises
AppendIndexRaises ==
  /\ pc = "csv"
  /\ fault' = "OSError"
  /\ EnterFinally
  /\ UNCHANGED <<replayVars, raceVars, configVars, queueVars, bufferVars, outputVars,
                 actorVars, discarded, recorded, now, lidar_next, lidar_log, logVars>>

\* ---------------------------------------------------------- the teardown
\* td counts the destroy() calls of the finally block that have returned
Controllers == 1 + Len(vehicles) + Len(pedestrians)

\* a destroy() call returned: the next one, or the end of main()
Destroyed ==
  /\ td' = td + 1
  /\ pc' = IF td + 1 = Controllers THEN "ended" ELSE "finally"
  /\ UNCHANGED fault

\* a destroy() call raised: the exception leaves the finally block
DestroyRaised ==
  /\ pc' = "ended"
  /\ fault' = "RuntimeError"
  /\ UNCHANGED td

\* every actor of order is destroyed and the destroy() call returns
DestroyActors(order) ==
  /\ alive' = alive \ Prefix(order, Len(order))
  /\ Destroyed

\* order[1..k] are destroyed, then destroying the next actor raises
DestroyActorsRaises(order) ==
  \E k \in 0..(Len(order) - 1) :
    /\ alive' = alive \ Prefix(order, k)
    /\ DestroyRaised

\* the order in which the destroy() call number td + 1 destroys its actors
DestroyOrder ==
  IF td = 0 THEN EgoDestroyOrder(lidar_is_pandora)
  ELSE IF td <= Len(vehicles) THEN << <<"vehicle", vehicles[td]>> >>
  ELSE PedestrianDestroyOrder(pedestrians[td - Len(vehicles)])

\* ego_vehicle.destroy()
DestroyEgo ==
  /\ pc = "finally"
  /\ td = 0
  /\ DestroyActors(DestroyOrder)
  /\ UNCHANGED <<replayVars, raceVars, configVars, queueVars, bufferVars, outputVars, vehicles,
                 pedestrians, started, discarded, recorded, now, lidar_next, lidar_log,
                 logVars, teardowns, occupied, failed_attempts>>

\* vehicle.destroy() for the next vehicle of AIVehicle.instances
DestroyVehicle ==
  /\ pc = "finally"
  /\ td >= 1 /\ td <= Len(vehicles)
  /\ DestroyActors(DestroyOrder)
  /\ UNCHANGED <<replayVars, raceVars, configVars, queueVars, bufferVars, outputVars, vehicles,
                 pedestrians, started, discarded, recorded, now, lidar_next, lidar_log,
                 logVars, teardowns, occupied, failed_attempts>>

\* pedestrian.destroy() for the next pedestrian of AIPedestrian.instances
DestroyPedestrian ==
  /\ pc = "finally"
  /\ td > Len(vehicles) /\ td < Controllers
  /\ DestroyActors(DestroyOrder)
  /\ UNCHANGED <<replayVars, raceVars, configVars, queueVars, bufferVars, outputVars, vehicles,
                 pedestrians, started, discarded, recorded, now, lidar_next, lidar_log,
                 logVars, teardowns, occupied, failed_attempts>>

\* the next destroy() call of the finally block raises
DestroyRaises ==
  /\ pc = "finally"
  /\ DestroyActorsRaises(DestroyOrder)
  /\ UNCHANGED <<replayVars, raceVars, configVars, queueVars, bufferVars, outputVars, vehicles,
                 pedestrians, started, discarded, recorded, now, lidar_next, lidar_log,
                 logVars, teardowns, occupied, failed_attempts>>

\* ------------------------------------------------------------ the replay
\* sequence[name].copy() of an archive: rows of (payload, timestamp), the
\* payload of row k written k
Rows(timestamps) == [k \in 1..Len(timestamps) |-> <<k, timestamps[k]>>]

\* timestamp sequences an archive can hold: any length, never decreasing
Timestamps(maxLen, maxTs) ==
  {ts \in UNION {[1..n -> 1..maxTs] : n \in 0..maxLen} :
     \A k \in 1..(Len(ts) - 1) : ts[k] <= ts[k + 1]}

\* main() of visualize_recording.py once the archive is loaded
InitReplay ==
  /\ replay_pc = "loop"
  /\ events_with_ts \in {Rows(ts) : ts \in Timestamps(MaxLen, MaxTs)}
  /\ \E n \in 0..MaxLen : depth_images_with_ts = Rows([k \in 1..n |-> k])
  /\ lidar_clouds_with_ts \in {Rows(ts) : ts \in Timestamps(MaxLen, MaxTs)}
  /\ rgb_images_with_ts \in {Rows(ts) : ts \in Timestamps(MaxLen, MaxTs)}
  /\ ref_index = 0
  /\ lidar_index = 0
  /\ rgb_index = 0
  /\ shown = <<>>

\* no replay is running
NoReplay ==
  /\ replay_pc = "idle"
  /\ events_with_ts = <<>> /\ depth_images_with_ts = <<>>
  /\ lidar_clouds_with_ts = <<>> /\ rgb_images_with_ts = <<>>
  /\ ref_index = 0
  /\ lidar_index = 0
  /\ rgb_index = 0
  /\ shown = <<>>

\* the test that treats the end of the sequence as a frame that is due
IsDueAtEnd(rows, index, t) == index >= Len(rows) \/ rows[index + 1][2] <= t

\* "try: if rows[index, 1] <= t: ... except IndexError: pass", indices from 0:
\* past the end the subscript raises and the except clause swallows it
IsDue(rows, index, t) == index < Len(rows) /\ rows[index + 1][2] <= t

\* the point cloud displayed without the test of its timestamp
DisplayedUntested(t) ==
  <<<<"Depth", ref_index, ref_index>>>>
  \o (IF lidar_index < Len(lidar_clouds_with_ts)
      THEN <<<<"LiDAR", lidar_index, ref_index>>>> ELSE <<>>)
  \o (IF IsDue(rgb_images_with_ts, rgb_index, t)
      THEN <<<<"RGB", rgb_index, ref_index>>>> ELSE <<>>)

\* what one iteration displays after the events: the depth image, then the
\* point cloud and the RGB image that are due
Displayed(t) ==
  <<<<"Depth", ref_index, ref_index>>>>
  \o (IF IsDue(lidar_clouds_with_ts, lidar_index, t)
      THEN <<<<"LiDAR", lidar_index, ref_index>>>> ELSE <<>>)
  \o (IF IsDue(rgb_images_with_ts, rgb_index, t)
      THEN <<<<"RGB", rgb_index, ref_index>>>> ELSE <<>>)

\* one iteration of "for i in range(events_with_ts.shape[0])", up to the key
ReplayStep ==
  /\ replay_pc = "loop"
  /\ ref_index < Len(events_with_ts)
  /\ ref_index < Len(depth_images_with_ts)
  /\ LET t == events_with_ts[ref_index + 1][2] IN
       /\ shown' = shown \o <<<<"DVS", ref_index, ref_index>>>> \o Displayed(t)
       /\ lidar_index' = IF IsDue(lidar_clouds_with_ts, lidar_index, t)
                         THEN lidar_index + 1 ELSE lidar_index
       /\ rgb_index' = IF IsDue(rgb_images_with_ts, rgb_index, t)
                       THEN rgb_index + 1 ELSE rgb_index
  /\ \/ \* any key but escape: the next iteration
        /\ ref_index' = ref_index + 1
        /\ UNCHANGED replay_pc
     \/ \* key == 27: break
        /\ replay_pc' = "done"
        /\ ref_index' = ref_index + 1
  /\ UNCHANGED <<sessionVars, events_with_ts, depth_images_with_ts, lidar_clouds_with_ts,
                 rgb_images_with_ts>>

\* depth_images_with_ts[i, 0] raises IndexError outside any try: main() ends
ReplayRaises ==
  /\ replay_pc = "loop"
  /\ ref_index < Len(events_with_ts)
  /\ ref_index >= Len(depth_images_with_ts)
  /\ shown' = Append(shown, <<"DVS", ref_index, ref_index>>)
  /\ replay_pc' = "raised"
  /\ UNCHANGED <<sessionVars, events_with_ts, depth_images_with_ts, lidar_clouds_with_ts,
                 rgb_images_with_ts, ref_index, lidar_index, rgb_index>>

\* the loop is over
ReplayEnd ==
  /\ replay_pc = "loop"
  /\ ref_index >= Len(events_with_ts)
  /\ replay_pc' = "done"
  /\ UNCHANGED <<sessionVars, events_with_ts, depth_images_with_ts, lidar_clouds_with_ts,
                 rgb_images_with_ts, ref_index, lidar_index, rgb_index, shown>>

\* ------------------------------------- the loop body, statement by statement
\* The callbacks registered with listen() run on the simulator's threads.  Here
\* they append at any moment of the loop body, which is taken one statement at
\* a time: the test of a block, each subscript that reads raw_data, the append
\* to the buffer (with its subscript for the timestamp), each pop(0).
QueueOf(s) ==
  CASE s = "dvs" -> dvs_queue [] s = "depth" -> depth_queue
    [] s = "lidar" -> lidar_queue [] s = "rgb" -> rgb_queue

LogOf(s) ==
  CASE s = "dvs" -> dvs_log [] s = "depth" -> depth_log
    [] s = "lidar" -> lidar_log [] s = "rgb" -> rgb_log

BufferOf(s) ==
  CASE s = "dvs" -> events_queue [] s = "depth" -> depth_images_queue
    [] s = "lidar" -> lidar_clouds_queue [] s = "rgb" -> rgb_images_queue

\* the block that follows the block of sensor s in the loop body
After(s) == CASE s = "dvs" -> "depth" [] s = "depth" -> "lidar" [] s = "lidar" -> "rgb"

\* frames the block of sensor s takes from its queue
Need(s) == IF s = "lidar" THEN N ELSE 1

\* a front insertion in place of the append
ListenFront(queue, frame) == <<frame>> \o queue

\* sensor.listen(queue.append): the callback appends the frame
Listen(queue, frame) == Append(queue, frame)

\* a test that always passes
HasFramesUnchecked(queue, n) == TRUE

\* "if queue:" (n = 1) and "if len(queue) >= n:"
HasFrames(queue, n) == Len(queue) >= n

\* now, when clear_sensor_queues() was called
ClearTick == 1 + ticks_to_discard

LastTs(log) == IF log = <<>> THEN ClearTick ELSE log[Len(log)].timestamp

\* the ticks made whose frame of sensor s has not been delivered yet; the
\* emitters of a split LiDAR deliver in turn
Pending(s) ==
  IF s = "lidar"
  THEN {t \in {LastTs(lidar_log) + (IF lidar_log = <<>> \/ lidar_next = 1 THEN 1 ELSE 0)} :
          t <= now}
  ELSE {t \in (LastTs(LogOf(s)) + 1)..now : s = "rgb" => RgbFires(t)}

\* the frame sensor s delivers next
NextFrame(s) ==
  LET t == CHOOSE t \in Pending(s) : \A u \in Pending(s) : t <= u IN
    CASE s = "dvs" -> DVSEventArray(t) [] s = "depth" -> Image("depth", t)
      [] s = "lidar" -> LidarMeasurement(lidar_next, t) [] s = "rgb" -> Image("rgb", t)

SetQueue(s, queue) ==
  /\ dvs_queue' = IF s = "dvs" THEN queue ELSE dvs_queue
  /\ depth_queue' = IF s = "depth" THEN queue ELSE depth_queue
  /\ lidar_queue' = IF s = "lidar" THEN queue ELSE lidar_queue
  /\ rgb_queue' = IF s = "rgb" THEN queue ELSE rgb_queue

SetBuffer(s, buffer) ==
  /\ events_queue' = IF s = "dvs" THEN buffer ELSE events_queue
  /\ depth_images_queue' = IF s = "depth" THEN buffer ELSE depth_images_queue
  /\ lidar_clouds_queue' = IF s = "lidar" THEN buffer ELSE lidar_clouds_queue
  /\ rgb_images_queue' = IF s = "rgb" THEN buffer ELSE rgb_images_queue

\* a callback runs while main() is in the body of the "Recording ticks" loop.
\* An append to one queue commutes with the statements of the blocks of the
\* other queues, so it is taken while the loop body is in the block of its own
\* queue, before or after any statement of it, in the tick of the frame or in a
\* later one.
Callback ==
  /\ pc = "drain"
  /\ \E s \in {"dvs", "depth", "lidar", "rgb"} :
       /\ step[1] = s
       /\ Pending(s) # {}
       /\ SetQueue(s, Listen(QueueOf(s), NextFrame(s)))
       /\ dvs_log' = IF s = "dvs" THEN Append(dvs_log, NextFrame(s)) ELSE dvs_log
       /\ depth_log' = IF s = "depth" THEN Append(depth_log, NextFrame(s)) ELSE depth_log
       /\ lidar_log' = IF s = "lidar" THEN Append(lidar_log, NextFrame(s)) ELSE lidar_log
       /\ rgb_log' = IF s = "rgb" THEN Append(rgb_log, NextFrame(s)) ELSE rgb_log
       /\ lidar_next' = IF s = "lidar" THEN (lidar_next % N) + 1 ELSE lidar_next
  /\ UNCHANGED <<pc, fault, replayVars, raceVars, configVars, bufferVars, outputVars,
                 actorVars, discarded, recorded, now, td, teardowns>>

\* world.tick() returns; the callbacks of the tick may still be running
TickReturns ==
  /\ pc = "recording"
  /\ recorded < ticks_to_record
  /\ now' = now + 1
  /\ pc' = "drain"
  /\ UNCHANGED <<fault, replayVars, raceVars, configVars, queueVars, bufferVars, outputVars,
                 actorVars, discarded, recorded, lidar_next, lidar_log, logVars, td, teardowns>>

\* the block of sensor s is over: the next block, or the next iteration
Advance(s) ==
  IF s = "rgb"
  THEN /\ step' = <<"dvs", "check">>
       /\ recorded' = recorded + 1
       /\ pc' = "recording"
  ELSE /\ step' = <<After(s), "check">>
       /\ UNCHANGED <<recorded, pc>>

\* a statement of the loop body raises: the finally block is next
Raise(exception) ==
  /\ fault' = exception
  /\ EnterFinally
  /\ UNCHANGED <<step, held, recorded>>

\* the test of a block
CheckStep ==
  /\ pc = "drain"
  /\ step[2] = "check"
  /\ IF HasFrames(QueueOf(step[1]), Need(step[1]))
     THEN /\ step' = <<step[1], "read">>
          /\ UNCHANGED <<recorded, pc>>
     ELSE Advance(step[1])
  /\ UNCHANGED <<fault, held, replayVars, configVars, queueVars, bufferVars, outputVars,
                 actorVars, discarded, now, lidar_next, lidar_log, logVars, td, teardowns>>

\* queue[k].raw_data, k = 0 .. n-1: a subscript past the end raises IndexError
ReadStep ==
  /\ pc = "drain"
  /\ step[2] = "read"
  /\ LET s == step[1]
         k == Len(held) + 1 IN
       IF Len(QueueOf(s)) < k
       THEN Raise("IndexError")
       ELSE /\ held' = Append(held, QueueOf(s)[k])
            /\ step' = IF k = Need(s) THEN <<s, "append">> ELSE step
            /\ UNCHANGED <<pc, fault, td, teardowns, recorded>>
  /\ UNCHANGED <<replayVars, configVars, queueVars, bufferVars, outputVars, actorVars,
                 discarded, now, lidar_next, lidar_log, logVars>>

\* what is appended to the buffer of sensor s for the frames read
Payload(s, frames) ==
  CASE s = "dvs" -> Events(frames[1]) [] s = "depth" -> DepthImage(frames[1])
    [] s = "lidar" -> PointCloud(frames, Len(frames)) [] s = "rgb" -> RgbImage(frames[1])

\* buffer.append(np.array([payload, queue[0].timestamp])); for the point
\* clouds, under the retention test and followed by current_lidar_idx += 1
AppendStep ==
  /\ pc = "drain"
  /\ step[2] = "append"
  /\ LET s == step[1]
         kept == s = "lidar" => IsKept(current_lidar_idx, keep_lidar_every_x_idx) IN
       IF s = "lidar" /\ keep_lidar_every_x_idx = 0
       THEN Raise("ZeroDivisionError") /\ UNCHANGED bufferVars
       ELSE IF kept /\ QueueOf(s) = <<>>
       THEN Raise("IndexError") /\ UNCHANGED bufferVars
       ELSE /\ SetBuffer(s, IF kept
                            THEN Append(BufferOf(s),
                                        WithTs(Payload(s, held), QueueOf(s)[1].timestamp))
                            ELSE BufferOf(s))
            /\ current_lidar_idx' = IF s = "lidar" THEN NextLidarIdx(current_lidar_idx)
                                    ELSE current_lidar_idx
            /\ step' = <<s, "pop">>
            /\ UNCHANGED <<pc, fault, td, teardowns, recorded, held>>
  /\ UNCHANGED <<replayVars, configVars, queueVars, outputVars, actorVars, discarded, now,
                 lidar_next, lidar_log, logVars>>

\* queue.pop(0), once per frame read: popping an empty list raises IndexError
PopStep ==
  /\ pc = "drain"
  /\ step[2] = "pop"
  /\ LET s == step[1] IN
       IF QueueOf(s) = <<>>
       THEN Raise("IndexError") /\ UNCHANGED queueVars
       ELSE /\ SetQueue(s, PopFront(QueueOf(s), 1))
            /\ held' = Tail(held)
            /\ IF Len(held) = 1 THEN Advance(s) ELSE UNCHANGED <<step, recorded, pc>>
            /\ UNCHANGED <<fault, td, teardowns>>
  /\ UNCHANGED <<replayVars, configVars, bufferVars, outputVars, actorVars, discarded, now,
                 lidar_next, lidar_log, logVars>>

\* ---------------------------------------------------- the specifications
Pipeline ==
  \/ FirstTick \/ WarmupTick \/ ClearSensorQueues \/ RecordTick \/ Drain
  \/ SaveArchive \/ AppendIndex

\* the whole session: background agents, calls that raise, teardown; the
\* sensors deliver as configured (sensor_tick)
Init ==
  /\ InitConfig(MaxSessionTicks, MaxSessionTicks, MaxAgents, {"steady"})
  /\ InitOutput(OutputFiles, {FALSE})
  /\ InitWorld(MaxAgents + 1, 0)
  /\ points = MaxAgents + 1
  /\ InitSession
  /\ NoReplay

Next ==
  \/ SpawnEgo \/ SpawnEgoRaises \/ SpawnVehicle \/ SpawnPedestrian \/ SpawnFault
  \/ EnterTry \/ Pipeline \/ Fault \/ SaveArchiveRaises \/ AppendIndexRaises
  \/ DestroyEgo \/ DestroyVehicle \/ DestroyPedestrian \/ DestroyRaises

Spec == Init /\ [][Next]_vars

\* the recording pipeline alone: no background agents, no call that raises
\* but the modulo of the drain, more ticks, and point-cloud frames that are
\* delivered late or ahead of their tick
InitDrain ==
  /\ InitConfig(MaxDiscard, MaxTicks, 0, {"steady", "bursty"}) \/ DefaultConfig
  /\ InitOutput({DefaultOutputFile}, {FALSE})
  /\ InitWorld(1, 0)
  /\ InitSession
  /\ NoReplay

NextDrain == SpawnEgo \/ EnterTry \/ Pipeline \/ DestroyEgo

SpecDrain == InitDrain /\ [][NextDrain]_vars

\* the phases of a session: the pipeline with a longer warm-up, the sensors
\* delivering as configured
InitPhases ==
  /\ InitConfig(MaxDiscard + 1, MaxTicks, 0, {"steady"})
  /\ InitOutput({DefaultOutputFile}, {FALSE})
  /\ InitWorld(1, 0)
  /\ InitSession
  /\ NoReplay

SpecPhases == InitPhases /\ [][NextDrain]_vars

\* the callbacks of the emitters of a split LiDAR running in any order
InitShuffle ==
  /\ InitConfig(0, MaxRaceTicks, 0, {"shuffled"})
  /\ InitOutput({DefaultOutputFile}, {FALSE})
  /\ InitWorld(1, 0)
  /\ InitSession
  /\ NoReplay

\* a session written to its archive, compressed or not, with no warm-up
InitArchive ==
  /\ InitConfig(0, MaxTicks, 0, {"steady"})
  /\ InitOutput({DefaultOutputFile}, BOOLEAN)
  /\ InitWorld(1, 0)
  /\ InitSession
  /\ NoReplay

NextArchive ==
  \/ SpawnEgo \/ EnterTry \/ FirstTick \/ ClearSensorQueues \/ RecordTick \/ Drain
  \/ SaveArchive \/ AppendIndex \/ DestroyEgo

SpecArchive == InitArchive /\ [][NextArchive]_vars

SpecShuffle == InitShuffle /\ [][NextArchive]_vars

\* the spawning of the actors alone, in maps of few spawn points where actors of
\* an earlier session may stand
InitSpawn ==
  /\ InitConfig(0, 0, MaxAgents, {"steady"})
  /\ InitOutput({DefaultOutputFile}, {FALSE})
  /\ InitWorld(MaxPoints, MaxPoints)
  /\ InitSession
  /\ NoReplay

NextSpawn == SpawnEgo \/ SpawnEgoRaises \/ SpawnVehicle \/ SpawnPedestrian \/ EnterTry

SpecSpawn == InitSpawn /\ [][NextSpawn]_vars

\* the recording loop with the callbacks running at any moment of it
InitRace ==
  /\ InitConfig(0, MaxRaceTicks, 0, {"steady"})
  /\ InitOutput({DefaultOutputFile}, {FALSE})
  /\ InitWorld(1, 0)
  /\ InitSession
  /\ NoReplay

NextRace ==
  \/ SpawnEgo \/ EnterTry \/ FirstTick \/ ClearSensorQueues
  \/ TickReturns \/ Callback \/ CheckStep \/ ReadStep \/ AppendStep \/ PopStep
  \/ SaveArchive \/ AppendIndex \/ DestroyEgo

SpecRace == InitRace /\ [][NextRace]_vars

\* the replay of an archive, no session running
NoSession ==
  /\ InitSession
  /\ lidar_is_pandora = FALSE /\ nvehicles = 0 /\ npedestrians = 0
  /\ ticks_to_discard = 0 /\ ticks_to_record = 0 /\ keep_lidar_every_x_idx = 1
  /\ production = "steady" /\ rgb_period = 1
  /\ InitOutput({DefaultOutputFile}, {FALSE})
  /\ InitWorld(1, 0)

InitReplayOnly == NoSession /\ InitReplay

NextReplay == ReplayStep \/ ReplayRaises \/ ReplayEnd

SpecReplay == InitReplayOnly /\ [][NextReplay]_vars

\* ------------------------------------------------------------ the claims
RECURSIVE Flatten(_)
Flatten(seqs) == IF seqs = <<>> THEN <<>> ELSE Head(seqs) \o Flatten(Tail(seqs))

\* the frames of the merged cloud of ordinal j (0-based) since the clear
CloudFrames(j) == SubSeq(lidar_log, N * j + 1, N * j + N)

\* that cloud as it is recorded: the payloads in queue order, the first timestamp
CloudOf(j) ==
  <<Flatten([i \in 1..N |-> CloudFrames(j)[i].raw_data]), CloudFrames(j)[1].timestamp>>

Ordinals(c) == [i \in 1..c |-> i - 1]

KeptOrdinals(c) == SelectSeq(Ordinals(c), LAMBDA j : j % keep_lidar_every_x_idx = 0)

Buffers == <<events_queue, depth_images_queue, lidar_clouds_queue, rgb_images_queue>>

Queues == <<dvs_queue, depth_queue, lidar_queue, rgb_queue>>

\* C1: the counter c is the number of clouds merged since the clear (every
\* frame appended since then is either queued or in one of the c clouds), and
\* the recorded clouds are exactly the merged clouds of ordinal j < c with
\* j mod keep_every = 0, in production order.
C1_DecimationRule ==
  /\ N * current_lidar_idx + Len(lidar_queue) = Len(lidar_log)
  /\ LET kept == KeptOrdinals(current_lidar_idx) IN
       lidar_clouds_queue = [i \in 1..Len(kept) |-> CloudOf(kept[i])]
  /\ keep_lidar_every_x_idx = 1 => Len(lidar_clouds_queue) = current_lidar_idx

\* a kept cloud, a dropped cloud and a tick without a merged cloud
C1_Witness ==
  /\ keep_lidar_every_x_idx >= 2
  /\ current_lidar_idx >= 2
  /\ recorded > current_lidar_idx
  /\ Len(lidar_clouds_queue) >= 1
  /\ Len(lidar_clouds_queue) < current_lidar_idx

\* C2: keep_every is at least 1 whenever the retention test is evaluated, and
\* the test never faults.
C2_KeepEveryAtLeastOne ==
  /\ fault # "ZeroDivisionError"
  /\ (pc = "drain" /\ Len(lidar_queue) >= N) => keep_lidar_every_x_idx >= 1

\* what C3 says of the point-cloud block of one recording tick
MergeStep ==
  IF Len(lidar_queue) >= N
  THEN /\ lidar_queue' = SubSeq(lidar_queue, N + 1, Len(lidar_queue))
       /\ current_lidar_idx' = current_lidar_idx + 1
       /\ \/ lidar_clouds_queue' = lidar_clouds_queue
          \/ lidar_clouds_queue' =
               Append(lidar_clouds_queue,
                      <<Flatten([i \in 1..N |-> lidar_queue[i].raw_data]),
                        lidar_queue[1].timestamp>>)
  ELSE /\ UNCHANGED <<lidar_queue, current_lidar_idx, lidar_clouds_queue>>
       /\ fault' = "none"

\* C3: on a recording tick the point-cloud block removes exactly the N front
\* frames when at least N are queued, the cloud it records being their payloads
\* in queue order with the first timestamp, and changes nothing and raises
\* nothing when fewer are queued.
C3_MergeStep == [][pc = "drain" => MergeStep]_vars

\* C3 where the modulo is defined
C3_MergeStepKeepDefined ==
  [][(pc = "drain" /\ keep_lidar_every_x_idx >= 1) => MergeStep]_vars

\* the emitter a frame comes from
EmitterOf(frame) == frame.raw_data[1][1]

\* C4: split-emitter mode, three frames per tick: the frames appended since the
\* clear are the c merged groups followed by the queue, every group is the top,
\* middle and bottom frame of one tick, and every recorded cloud is as long as
\* the three frames of its tick together.
C4_SplitMerge ==
  (production = "steady" /\ lidar_is_pandora) =>
    /\ Len(lidar_log) >= 3 * current_lidar_idx
    /\ lidar_queue = SubSeq(lidar_log, 3 * current_lidar_idx + 1, Len(lidar_log))
    /\ \A j \in 0..(current_lidar_idx - 1) :
         /\ \A i \in 1..3 : /\ EmitterOf(CloudFrames(j)[i]) = i
                            /\ CloudFrames(j)[i].timestamp = CloudFrames(j)[1].timestamp
    /\ \A i \in 1..Len(lidar_clouds_queue) :
         LET t == lidar_clouds_queue[i][2] IN
           /\ Len(lidar_clouds_queue[i][1]) =
                NumPoints(1, t) + NumPoints(2, t) + NumPoints(3, t)
           /\ \A k \in 1..Len(lidar_clouds_queue[i][1]) :
                lidar_clouds_queue[i][1][k][2] = t

\* split-emitter mode, two clouds merged and recorded, every buffer filled
C4_Witness ==
  /\ production = "steady" /\ lidar_is_pandora
  /\ current_lidar_idx >= 2
  /\ Len(lidar_clouds_queue) >= 2
  /\ lidar_queue = <<>>

Abs(x) == IF x < 0 THEN -x ELSE x

SessionOver == pc \in {"csv", "finally", "ended"}

\* C5: a session that ends without a fault, the sensors delivering every tick,
\* has recorded floor(ticks_to_record / keep_every) clouds, give or take one;
\* with the default options (200 Hz, 10 Hz, 10 s, one LiDAR) that is 2000
\* recording ticks after 600 discarded ones, keep_every = 20 and 100 clouds,
\* give or take one.
C5_RecordedLength ==
  (SessionOver /\ fault = "none" /\ production = "steady"
     /\ keep_lidar_every_x_idx >= 1) =>
    /\ Abs(Len(lidar_clouds_queue) - (ticks_to_record \div keep_lidar_every_x_idx)) <= 1
    /\ (/\ ticks_to_record = TicksFor(DefaultDuration2, DefaultHz)
        /\ keep_lidar_every_x_idx = KeepEvery(DefaultHz, DefaultLidarHz)) =>
         /\ ticks_to_record = 2000
         /\ keep_lidar_every_x_idx = 20
         /\ ticks_to_discard = 600
         /\ Abs(Len(lidar_clouds_queue) - 100) <= 1

\* a fault-free session whose count is one above floor(ticks_to_record / keep_every)
C5_Witness ==
  /\ pc = "ended" /\ fault = "none" /\ production = "steady"
  /\ keep_lidar_every_x_idx = 2
  /\ ticks_to_record = 3
  /\ Len(lidar_clouds_queue) = 2

\* C6: the four queues are empty when the first recording tick is advanced, and
\* no frame of the entry tick or of a warm-up tick (timestamp up to
\* 1 + ticks_to_discard) is ever in a recording buffer.
C6_WarmupDiscarded ==
  /\ (pc = "recording" /\ recorded = 0) => \A q \in 1..4 : Queues[q] = <<>>
  /\ \A b \in 1..4 : \A i \in 1..Len(Buffers[b]) : Buffers[b][i][2] > 1 + ticks_to_discard

C6_Witness ==
  /\ ticks_to_discard >= 1
  /\ recorded >= 1
  /\ \A b \in 1..4 : Buffers[b] # <<>>

\* C7: once try is entered the finally block is entered exactly once, whether
\* the session ends or raises, and world.tick() is never called after it.
C7_TeardownOnce ==
  /\ [](/\ pc \in {"first_tick", "warmup", "recording", "drain", "csv"} => teardowns = 0
        /\ pc \in {"finally", "ended"} => teardowns = 1)
  /\ [][teardowns >= 1 => now' = now]_vars

\* a fault between the return of world.tick() and the end of the drain of a
\* recording tick, the teardown done
C7_Witness ==
  /\ pc = "ended" /\ teardowns = 1 /\ alive = {}
  /\ fault = "RuntimeError"
  /\ recorded < ticks_to_record
  /\ now = 2 + ticks_to_discard + recorded

\* C8: when the session is over, however it ended, no spawned actor is left.
C8_NoActorLeaked == pc \in {"ended", "crashed"} => alive = {}

Cursor(window) == IF window = "LiDAR" THEN lidar_index ELSE rgb_index

RowsOf(window) == IF window = "LiDAR" THEN lidar_clouds_with_ts ELSE rgb_images_with_ts

\* C9: once a reference index is processed, every point cloud and every RGB
\* image with a timestamp up to the reference timestamp has been displayed:
\* each cursor is at the end or at a frame with a greater timestamp.
C9_AllDueEmitted ==
  (replay_pc \in {"loop", "done"} /\ ref_index >= 1) =>
    \A w \in {"LiDAR", "RGB"} :
      \/ Cursor(w) = Len(RowsOf(w))
      \/ RowsOf(w)[Cursor(w) + 1][2] > events_with_ts[ref_index][2]

\* the frames of a window displayed so far
ShownOf(window) == SelectSeq(shown, LAMBDA e : e[1] = window)

\* C10: each cursor stays within 0 .. length of its sequence, never decreases,
\* and moves only by one, when the frame it pointed at is displayed.
C10_Cursors ==
  /\ [](\A w \in {"LiDAR", "RGB"} : Cursor(w) >= 0 /\ Cursor(w) <= Len(RowsOf(w)))
  /\ [][\A w \in {"LiDAR", "RGB"} :
          \/ /\ Cursor(w)' = Cursor(w)
             /\ ShownOf(w)' = ShownOf(w)
          \/ /\ Cursor(w)' = Cursor(w) + 1
             /\ ShownOf(w)' = Append(ShownOf(w), <<w, Cursor(w), ref_index>>)]_vars

\* one cursor at the end of its sequence, the other held back, after two
\* reference indices
C10_Witness ==
  /\ ref_index = 2
  /\ lidar_index = Len(lidar_clouds_with_ts) /\ lidar_index >= 1
  /\ rgb_index = 1 /\ Len(rgb_images_with_ts) = 2

\* the reference frames displayed so far
ReferenceEmissions == Len(ShownOf("DVS"))

\* C11: whatever the lengths of the depth, point-cloud and RGB sequences,
\* the replay raises nothing, and when it ends without the user's break it
\* has displayed each of the R reference frames once.
C11_ReplayCompletes ==
  /\ replay_pc # "raised"
  /\ (replay_pc = "done" /\ ref_index = Len(events_with_ts)) =>
       ReferenceEmissions = Len(events_with_ts)

\* the frames of sensor s popped since the clear
Popped(s) == Len(LogOf(s)) - Len(QueueOf(s))

\* C12: no subscript and no pop of the loop body finds its queue too short:
\* once the test of a block has passed, the frames it reads and pops are queued.
C12_NoEmptyQueue ==
  /\ fault # "IndexError"
  /\ (pc = "drain" /\ step[2] \in {"read", "append"}) =>
       Len(QueueOf(step[1])) >= Need(step[1])
  /\ (pc = "drain" /\ step[2] = "pop") =>
       (held # <<>> /\ Len(QueueOf(step[1])) >= Len(held))

\* the third pop of a split-LiDAR cloud is next, no fault so far, and the test
\* of a block has failed on an earlier tick (fewer clouds than ticks)
C12_Witness ==
  /\ pc = "drain" /\ fault = "none"
  /\ lidar_is_pandora
  /\ step = <<"lidar", "pop">> /\ Len(held) = 1
  /\ recorded >= 1 /\ current_lidar_idx = 1

\* the buffer entry the loop body makes of a camera frame
Recorded(s, frame) == WithTs(Payload(s, <<frame>>), frame.timestamp)

\* C13: callbacks appending at any moment of the loop body.  The frames read
\* and not yet popped are the front of their queue, so a pop removes the frame
\* that was read; the frames pushed since the clear are the popped ones
\* followed by the queue; every popped camera frame is in its buffer once, in
\* order, and the merged clouds are made of the popped point-cloud frames.
C13_LockFreeDrain ==
  /\ pc = "drain" => held = SubSeq(QueueOf(step[1]), 1, Len(held))
  /\ \A s \in {"dvs", "depth", "lidar", "rgb"} :
       /\ Popped(s) >= 0
       /\ QueueOf(s) = SubSeq(LogOf(s), Popped(s) + 1, Len(LogOf(s)))
  /\ \A s \in {"dvs", "depth", "rgb"} :
       /\ Len(BufferOf(s)) =
            Popped(s) + (IF pc = "drain" /\ step = <<s, "pop">> THEN 1 ELSE 0)
       /\ \A k \in 1..Len(BufferOf(s)) : BufferOf(s)[k] = Recorded(s, LogOf(s)[k])
  /\ Popped("lidar") =
       N * current_lidar_idx - (IF pc = "drain" /\ step = <<"lidar", "pop">>
                                THEN Len(held) ELSE 0)
  /\ LET kept == KeptOrdinals(current_lidar_idx) IN
       lidar_clouds_queue = [i \in 1..Len(kept) |-> CloudOf(kept[i])]

\* a frame is appended behind the frame that was read and is about to be popped
C13_Witness ==
  /\ pc = "drain" /\ fault = "none"
  /\ step = <<"dvs", "pop">>
  /\ Len(dvs_queue) = 2
  /\ held = <<dvs_queue[1]>>
  /\ dvs_queue[2].timestamp = now
  /\ recorded = 1 /\ events_queue # <<>>

\* C14: when np.savez raises, the exception is not swallowed: the finally
\* block runs and the session ends with a fault, its archive unwritten and no
\* row appended to the csv file.
C14_ArchiveFailureFatal ==
  /\ [](archive = <<>> => csv_rows = PriorRows)
  /\ []((archive = <<>> /\ fault = "OSError") =>
          (pc \in {"finally", "ended"} /\ teardowns = 1))
  /\ []((pc = "ended" /\ archive = <<>>) => fault # "none")
  /\ [][fault # "none" => fault' # "none"]_vars

\* np.savez has raised and the session is over, torn down
C14_Witness ==
  /\ pc = "ended" /\ fault = "OSError"
  /\ recorded = ticks_to_record /\ recorded >= 1
  /\ archive = <<>> /\ csv_rows = PriorRows
  /\ teardowns = 1 /\ alive = {}

\* C15: when the append to the csv file fails after the archive was written, no
\* fault leaves the session.
C15_IndexFailureNonFatal ==
  (archive # <<>> /\ csv_rows = PriorRows /\ pc \in {"finally", "ended"}) =>
    fault # "OSError"

\* the rows appended to the csv file since the session started
NewRows == SubSeq(csv_rows, Len(PriorRows) + 1, Len(csv_rows))

\* what C16 says of the csv file, the row naming the file name given
IndexDiscipline(name) ==
  /\ Len(csv_rows) >= Len(PriorRows)
  /\ SubSeq(csv_rows, 1, Len(PriorRows)) = PriorRows
  /\ Len(NewRows) <= 1
  /\ archive = <<>> => NewRows = <<>>
  /\ (pc = "ended" /\ fault = "none") => Len(NewRows) = 1
  /\ NewRows # <<>> =>
       NewRows[1] = <<name, archive[1].lidar_clouds.shape[1], "Town01">>

\* C16: the earlier rows of the csv file stay as they are; a session appends
\* at most one row, none before its archive is written and exactly one when it
\* completes; the row holds the base name of the archive file, the number of
\* point clouds stored in the archive and the map.
C16_IndexDiscipline == IndexDiscipline(BaseName(archive[1].file))

\* C16 with the name of the row read as the last component of --output-file
C16_IndexDisciplineGivenName == IndexDiscipline(BaseName(output_file))

\* C17: in the loops that spawn the vehicles and the pedestrians, an attempt
\* that fails on a collision raises nothing and registers nothing; an attempt
\* that succeeds registers exactly one entity, whose actor exists; the loops
\* over, exactly the requested numbers of entities are registered.
C17_SpawnRetry ==
  /\ [][failed_attempts' > failed_attempts =>
          UNCHANGED <<pc, fault, alive, vehicles, pedestrians>>]_vars
  /\ [][(pc = "spawn_agents" /\ fault' = "none" /\ alive' # alive) =>
          LET i == Len(vehicles) + 1
              j == Len(pedestrians) + 1
          IN  \/ /\ vehicles' = Append(vehicles, i) /\ pedestrians' = pedestrians
                 /\ alive' = alive \cup {<<"vehicle", i>>}
                 /\ <<"vehicle", i>> \notin alive
              \/ /\ pedestrians' = Append(pedestrians, j) /\ vehicles' = vehicles
                 /\ alive' = alive \cup {<<"walker", j>>, <<"controller", j>>}
                 /\ <<"walker", j>> \notin alive]_vars
  /\ [][(pc = "spawn_agents" /\ alive' = alive) =>
          (vehicles' = vehicles /\ pedestrians' = pedestrians)]_vars
  /\ [](pc = "first_tick" =>
          /\ Len(vehicles) = nvehicles /\ Len(pedestrians) = npedestrians
          /\ \A i \in 1..nvehicles : <<"vehicle", vehicles[i]>> \in alive
          /\ \A j \in 1..npedestrians : <<"walker", pedestrians[j]>> \in alive)

\* the only vehicle asked for is registered at the third attempt, after two
\* collisions
C17_Witness ==
  /\ pc = "spawn_agents" /\ fault = "none"
  /\ nvehicles = 1 /\ npedestrians = 0
  /\ failed_attempts = 2
  /\ vehicles = <<1>> /\ <<"vehicle", 1>> \in alive

C19_SpawnLoopsTerminate ==
  (pc = "spawn_agents" /\ Len(vehicles) < nvehicles /\ occupied = points) =>
    failed_attempts <= points

\* the actors of the controller created at rank c: the ego-vehicle first, then
\* the vehicles, then the pedestrians
ActorsOf(c) ==
  IF c = 1 THEN Prefix(EgoSpawnOrder(lidar_is_pandora), NumEgoActors(lidar_is_pandora))
  ELSE IF c <= 1 + Len(vehicles) THEN {<<"vehicle", vehicles[c - 1]>>}
  ELSE LET j == pedestrians[c - 1 - Len(vehicles)] IN {<<"walker", j>>, <<"controller", j>>}

\* C20: in the finally block a controller is torn down only when every
\* controller created after it is gone, the ego-vehicle last; when every
\* destroy() call has returned no actor of a controller is left.
C20_ReverseTeardown ==
  pc \in {"finally", "ended"} =>
    /\ \A c, d \in 1..Controllers :
         (c < d /\ ~(ActorsOf(c) \subseteq alive)) => ActorsOf(d) \cap alive = {}
    /\ (pc = "ended" /\ td = Controllers) =>
         \A c \in 1..Controllers : ActorsOf(c) \cap alive = {}

\* the four sequences the replay gets from the archive
ReadBack(name) ==
  WithTsRows(Load(CASE name = "events" -> archive[1].events
                    [] name = "depth_images" -> archive[1].depth_images
                    [] name = "lidar_clouds" -> archive[1].lidar_clouds
                    [] name = "rgb_images" -> archive[1].rgb_images))

C22_PhaseStructure ==
  /\ [][now' # now =>
          /\ now' = now + 1
          /\ \/ pc = "first_tick" /\ now = 0
             \/ pc = "warmup" /\ now >= 1 /\ now = 1 + discarded
                /\ discarded < ticks_to_discard
             \/ pc = "recording" /\ discarded = ticks_to_discard
                /\ now = 1 + ticks_to_discard + recorded /\ recorded < ticks_to_record]_vars
  /\ [](now <= 1 + ticks_to_discard => \A b \in 1..4 : Buffers[b] = <<>>)
  /\ [](archive # <<>> =>
          (recorded = ticks_to_record /\ now = 1 + ticks_to_discard + ticks_to_record))
  /\ []((pc = "ended" /\ fault = "none") =>
          (now = 1 + ticks_to_discard + ticks_to_record /\ archive # <<>>))
  /\ [](/\ TicksFor(DefaultDiscard2, DefaultHz) = 600
        /\ TicksFor(DefaultDuration2, DefaultHz) = 2000)

\* a session of two warm-up ticks and three recording ticks is over
C22_Witness ==
  /\ pc = "ended" /\ fault = "none"
  /\ ticks_to_discard = 2 /\ ticks_to_record = 3
  /\ now = 6 /\ archive # <<>>
  /\ Len(events_queue) = 3

\* C23: no controller of a pedestrian is started before the first world.tick()
\* has returned; the controllers of all the registered pedestrians are started
\* together, once, in the step that completes the first tick, before any tick
\* of the warm-up loop.
C23_EntryOrdering ==
  /\ [](now = 0 => started = {})
  /\ [][started' # started =>
          /\ pc = "first_tick" /\ now = 0 /\ now' = 1 /\ discarded' = 0
          /\ started = {}
          /\ started' = {pedestrians[k] : k \in 1..Len(pedestrians)}]_vars
  /\ [](pc \in {"warmup", "recording", "drain", "csv"} =>
          started = {pedestrians[k] : k \in 1..Len(pedestrians)})
  /\ [](discarded > 0 => started = {pedestrians[k] : k \in 1..Len(pedestrians)})

\* the pedestrian's controller is started and no warm-up tick is made yet
C23_Witness ==
  /\ pc = "warmup" /\ fault = "none"
  /\ npedestrians = 1 /\ pedestrians = <<1>>
  /\ started = {1}
  /\ now = 1 /\ discarded = 0 /\ ticks_to_discard = 1

\* the cloud of tick t with the frames of the emitters in the order the
\* sensors were registered: top, middle, bottom
InRegistrationOrder(t) == PointCloud([e \in 1..3 |-> LidarMeasurement(e, t)], 3)

\* C24: a split LiDAR delivering its three frames of a tick in any order, every
\* recorded cloud is the frame of the top emitter, then the frame of the middle
\* one, then the frame of the bottom one.
C24_RegistrationOrder ==
  (lidar_is_pandora /\ production = "shuffled") =>
    \A c \in 1..Len(lidar_clouds_queue) :
      lidar_clouds_queue[c][1] = InRegistrationOrder(lidar_clouds_queue[c][2])

\* C24 less the order: every recorded cloud holds the points of the top, the
\* middle and the bottom frame of one tick, each point once.
C24_OneFramePerEmitter ==
  (lidar_is_pandora /\ production = "shuffled") =>
    \A c \in 1..Len(lidar_clouds_queue) :
      LET cloud == lidar_clouds_queue[c][1]
          reference == InRegistrationOrder(lidar_clouds_queue[c][2])
      IN  /\ Len(cloud) = Len(reference)
          /\ {cloud[k] : k \in 1..Len(cloud)} = {reference[k] : k \in 1..Len(reference)}

Cameras == {"dvs", "depth", "rgb"}

\* C25: for the event, depth and RGB sensors the loop body moves at most one
\* frame per recording tick, the front one of the queue, to the buffer; a
\* buffer only grows, by appending; it is at every moment the image of a
\* prefix of the frames pushed to the queue since the clear, in their order
\* and without a gap, its timestamps never decreasing.
C25_CameraBuffers ==
  /\ [](\A s \in Cameras :
          /\ Len(BufferOf(s)) <= Len(LogOf(s))
          /\ Len(BufferOf(s)) <= (IF now > ClearTick THEN now - ClearTick ELSE 0)
          /\ \A k \in 1..Len(BufferOf(s)) :
               /\ BufferOf(s)[k][1] = Payload(s, <<LogOf(s)[k]>>)
               /\ BufferOf(s)[k][2] = LogOf(s)[k].timestamp
          /\ \A k \in 1..(Len(BufferOf(s)) - 1) : BufferOf(s)[k][2] <= BufferOf(s)[k + 1][2])
  /\ [][\A s \in Cameras :
          \/ BufferOf(s)' = BufferOf(s)
          \/ /\ QueueOf(s) # <<>>
             /\ BufferOf(s)' = Append(BufferOf(s), <<Payload(s, <<QueueOf(s)[1]>>),
                                                     QueueOf(s)[1].timestamp>>)]_vars
  /\ [][\A s \in Cameras :
          Len(QueueOf(s)') < Len(QueueOf(s)) =>
            (QueueOf(s)' = Tail(QueueOf(s)) \/ QueueOf(s)' = <<>>)]_vars

\* two RGB frames are queued when the block of the RGB camera is reached: one
\* is moved, the other one stays for the next tick
C25_Witness ==
  /\ pc = "drain" /\ fault = "none"
  /\ step = <<"rgb", "pop">>
  /\ Len(rgb_queue) = 2
  /\ Len(rgb_images_queue) = 1 /\ Len(events_queue) = 2

\* C26: every tick delivering one event array, one depth image, at most one
\* RGB image and N point-cloud frames, the four sensor queues are empty after
\* every iteration of the recording loop, and from the clear on no queue is
\* ever longer than what one tick delivers.
C26_BoundedBacklog ==
  production = "steady" =>
    /\ pc = "recording" => \A q \in 1..4 : Queues[q] = <<>>
    /\ pc \notin {"spawn_ego", "spawn_agents", "first_tick", "warmup"} =>
         /\ Len(dvs_queue) <= 1 /\ Len(depth_queue) <= 1
         /\ Len(lidar_queue) <= N /\ Len(rgb_queue) <= 1

\* the second iteration of the recording loop is over, split LiDAR, the RGB
\* camera firing every second tick
C26_Witness ==
  /\ pc = "recording" /\ fault = "none" /\ production = "steady"
  /\ recorded = 2 /\ ticks_to_record = 3
  /\ lidar_is_pandora /\ rgb_period = 2
  /\ \A q \in 1..4 : Queues[q] = <<>>
  /\ Len(events_queue) = 2 /\ Len(rgb_images_queue) = 1

\* C27: the depth images, the point clouds and the RGB images are each
\* displayed in increasing index order, none twice; a point cloud or an RGB
\* image is displayed only at a reference index whose timestamp is not smaller
\* than its own.
C27_ReplayOrdering ==
  /\ \A w \in {"Depth", "LiDAR", "RGB"} :
       \A a, b \in 1..Len(ShownOf(w)) : a < b => ShownOf(w)[a][2] < ShownOf(w)[b][2]
  /\ \A w \in {"LiDAR", "RGB"} :
       \A a \in 1..Len(ShownOf(w)) :
         LET e == ShownOf(w)[a] IN
           /\ e[2] >= 0 /\ e[2] < Len(RowsOf(w))
           /\ RowsOf(w)[e[2] + 1][2] <= events_with_ts[e[3] + 1][2]

\* two point clouds and two RGB images were displayed, the second point cloud
\* held back until the reference index its timestamp allows
C27_Witness ==
  /\ replay_pc = "done"
  /\ Len(ShownOf("LiDAR")) = 2 /\ Len(ShownOf("RGB")) = 2
  /\ ShownOf("LiDAR")[1][3] = 0 /\ ShownOf("LiDAR")[2][3] = 1
  /\ lidar_clouds_with_ts[2][2] > events_with_ts[1][2]

\* C28: the event camera and the depth camera each delivering one frame per
\* tick with the timestamp of the tick, after every iteration of the recording
\* loop the events buffer and the depth buffer have the same length, one entry
\* per iteration, and the same timestamp at every index; the archive then holds
\* as many depth images as event arrays.
C28_EventsDepthAligned ==
  /\ pc \in {"recording", "csv", "finally", "ended"} =>
       /\ Len(events_queue) = Len(depth_images_queue)
       /\ \A k \in 1..Len(events_queue) : events_queue[k][2] = depth_images_queue[k][2]
  /\ pc = "recording" => Len(events_queue) = recorded
  /\ archive # <<>> => archive[1].events.shape = archive[1].depth_images.shape

\* three iterations of the recording loop are over
C28_Witness ==
  /\ pc = "recording" /\ fault = "none"
  /\ recorded = 3
  /\ Len(events_queue) = 3 /\ Len(depth_images_queue) = 3
  /\ events_queue[3][2] = depth_images_queue[3][2]
  /\ events_queue[3][2] = now

====
